---- MODULE Spec2Model ----
(***************************************************************************)
(* sqlite-scanner: the concurrent scan pipeline of main.go.                *)
(*                                                                         *)
(* One traversal goroutine per root walks its subtree and sends every      *)
(* regular file's path on the bounded channel `paths`; a fixed pool of     *)
(* workers receives paths, probes each file's header and sends matches on  *)
(* `matches` and non-permission errors on `errs`; a result sink and an     *)
(* error sink drain those two channels.  scanPaths closes the channels in  *)
(* dependency order and returns the joined walk error.                     *)
(***************************************************************************)
EXTENDS Integers, Sequences, FiniteSets, TLC

\* ------------------------------------------------------------------------
\* Bounds of the model
\* ------------------------------------------------------------------------

\* largest --workers value explored
MaxWorkers == 2
\* longest list of positional paths handed to resolveRoots on its own
MaxRoots == 3
\* most bytes that follow the first 16 in the files probed on their own
MaxTail == 2

\* ------------------------------------------------------------------------
\* Program constants
\* ------------------------------------------------------------------------

\* paths := make(chan string, workers*4)
PathsCapFactor == 4
\* matches := make(chan matchResult, workers*2)
MatchesCapFactor == 2
\* errs := make(chan error, workers)
ErrsCapFactor == 1

\* var sqliteMagic = []byte("SQLite format 3\x00")
\* var version
version == "dev"

sqliteMagic == <<83, 81, 76, 105, 116, 101, 32, 102, 111, 114, 109, 97, 116, 32, 51, 0>>

Nil == "nil"
\* fs.ErrPermission, as errors.Is(err, fs.ErrPermission) sees it
ErrPermission == "EACCES"
ErrNotExist == "ENOENT"
ErrIO == "EIO"

\* ------------------------------------------------------------------------
\* The file system the scan runs on (immutable during a scan)
\* ------------------------------------------------------------------------

\* Every path name of the universe.  Relative names are relative to the
\* working directory ".", which holds "a" and "l"; "l" is a symbolic link to
\* "a/s", "x" does not exist, "y" cannot be lstat-ed (permission denied on the
\* way to it), "/v" is a regular file named by an absolute path and "./a/t"
\* is another spelling of "a/t".
Paths == {".", "a", "a/f", "a/s", "a/s/g", "a/s/h", "a/t", "l", "x", "y", "/v", "./a/t"}

\* filepath.IsAbs(p)
AbsPaths == {"/v"}
IsAbs(p) == p \in AbsPaths

\* filepath.Clean(p): the shortest spelling of p
Clean(p) == IF p = "./a/t" THEN "a/t" ELSE p

\* The files whose kind varies between worlds.
FilePaths == {"a/f", "a/s/g", "a/s/h", "a/t"}

\* Directory entries in the order os.ReadDir returns them (sorted by name).
DirEntries(p) ==
    CASE p = "."   -> <<"a", "l">>
      [] p = "a"   -> <<"a/f", "a/s", "a/t">>
      [] p = "a/s" -> <<"a/s/g", "a/s/h">>
      [] OTHER     -> <<>>

\* Contents used by the files of the universe.
DataGood == sqliteMagic \o <<102, 111, 111>>
DataLong == sqliteMagic \o <<108, 101, 110, 103, 116, 104, 121, 32, 112, 97, 121, 108, 111, 97, 100>>
DataShort == <<110, 111, 116, 32, 115, 113, 108, 105, 116, 101>>
DataOther == <<115, 81, 76, 105, 116, 101, 32, 102, 111, 114, 109, 97, 116, 32, 51, 0, 1>>

Node(type, data, lstat, readdir, open, read, stat, link) ==
    [type |-> type, data |-> data, lstat |-> lstat, readdir |-> readdir,
     open |-> open, read |-> read, stat |-> stat, link |-> link]

DirNode(readdir) == Node("dir", <<>>, Nil, readdir, Nil, Nil, Nil, "")
FileNode(data) == Node("regular", data, Nil, Nil, Nil, Nil, Nil, "")
SymlinkNode(target) == Node("symlink", <<>>, Nil, Nil, Nil, Nil, Nil, target)
AbsentNode(lstat) == Node("absent", <<>>, lstat, Nil, lstat, Nil, Nil, "")

\* The kinds of file a world is built from.
KindNode(kind) ==
    CASE kind = "good"    -> FileNode(DataGood)
      [] kind = "long"    -> FileNode(DataLong)
      [] kind = "short"   -> FileNode(DataShort)
      [] kind = "empty"   -> FileNode(<<>>)
      [] kind = "other"   -> FileNode(DataOther)
      [] kind = "eperm"   -> [FileNode(DataGood) EXCEPT !.open = ErrPermission]
      [] kind = "eopen"   -> [FileNode(DataGood) EXCEPT !.open = ErrNotExist]
      [] kind = "eread"   -> [FileNode(DataGood) EXCEPT !.read = ErrIO]
      [] kind = "estat"   -> [FileNode(DataGood) EXCEPT !.stat = ErrIO]
      [] kind = "symlink" -> SymlinkNode("a/f")

\* A world: the kind of each file and the outcome of reading directory a/s.
World(kinds, sdir) ==
    [p \in Paths |->
        CASE p = "."   -> DirNode(Nil)
          [] p = "/v"  -> FileNode(DataLong)
          [] p = "./a/t" -> KindNode(kinds["a/t"])
          [] p = "a"   -> DirNode(Nil)
          [] p = "a/s" -> DirNode(sdir)
          [] p = "l"   -> SymlinkNode("a/s")
          [] p = "x"   -> AbsentNode(ErrNotExist)
          [] p = "y"   -> AbsentNode(ErrPermission)
          [] OTHER     -> KindNode(kinds[p])]

\* ------------------------------------------------------------------------
\* Pure functions of the program
\* ------------------------------------------------------------------------

\* An error value: the path it names, the errno it wraps, and the prefix
\* fmt.Errorf("%s: %w", p, err) puts in front of it ("" when not wrapped).
Err(prefix, path, errno) == [prefix |-> prefix, path |-> path, errno |-> errno]
NoErr == Err("", "", Nil)

\* errors.Is(err, fs.ErrPermission)
IsPermission(err) == err.errno \in {ErrPermission, "EPERM"}

\* io.ReadFull(f, buf): the bytes read and the error
ReadFull(node, n) ==
    IF node.read # Nil THEN [buf |-> <<>>, err |-> node.read]
    ELSE IF Len(node.data) = 0 THEN [buf |-> <<>>, err |-> "EOF"]
    ELSE IF Len(node.data) < n THEN [buf |-> node.data, err |-> "ErrUnexpectedEOF"]
    ELSE [buf |-> SubSeq(node.data, 1, n), err |-> Nil]

NoMatch == [Path |-> "", Size |-> 0]

\* Mutant of checkSQLiteMagic: the bytes read are compared with as much of the
\* signature, so a file cut short inside the signature matches.
checkSQLiteMagicPartial(fs, path) ==
    LET node == fs[path]
        rd == ReadFull(node, Len(sqliteMagic))
    IN  IF node.open # Nil
        THEN [res |-> NoMatch, ok |-> FALSE, err |-> Err("", path, node.open)]
        ELSE IF rd.err \notin {Nil, "EOF", "ErrUnexpectedEOF"}
        THEN [res |-> NoMatch, ok |-> FALSE, err |-> Err("", path, rd.err)]
        ELSE IF rd.buf # SubSeq(sqliteMagic, 1, Len(rd.buf))
        THEN [res |-> NoMatch, ok |-> FALSE, err |-> NoErr]
        ELSE IF node.stat # Nil
        THEN [res |-> NoMatch, ok |-> FALSE, err |-> Err("", path, node.stat)]
        ELSE [res |-> [Path |-> path, Size |-> Len(node.data)], ok |-> TRUE, err |-> NoErr]

\* checkSQLiteMagic(path) on file system fs: (matchResult, ok, err)
checkSQLiteMagic(fs, path) ==
    LET node == fs[path]
        rd == ReadFull(node, Len(sqliteMagic))
    IN  IF node.open # Nil
        THEN [res |-> NoMatch, ok |-> FALSE, err |-> Err("", path, node.open)]
        ELSE IF rd.err # Nil
        THEN IF rd.err \in {"EOF", "ErrUnexpectedEOF"}
             THEN [res |-> NoMatch, ok |-> FALSE, err |-> NoErr]
             ELSE [res |-> NoMatch, ok |-> FALSE, err |-> Err("", path, rd.err)]
        ELSE IF rd.buf # sqliteMagic
        THEN [res |-> NoMatch, ok |-> FALSE, err |-> NoErr]
        ELSE IF node.stat # Nil
        THEN [res |-> NoMatch, ok |-> FALSE, err |-> Err("", path, node.stat)]
        ELSE [res |-> [Path |-> path, Size |-> Len(node.data)], ok |-> TRUE, err |-> NoErr]

\* filepath.WalkDir(root, fn): the calls of fn it makes, in order, as long as fn
\* returns nil.  A directory is reported before its entries; a directory that
\* cannot be read is reported a second time with the error and has no entries.
RECURSIVE walkDir(_, _), walkEntries(_, _)
walkDir(fs, path) ==
    LET d == fs[path]
        first == <<[path |-> path, type |-> d.type, err |-> NoErr]>>
    IN  IF d.type # "dir" THEN first
        ELSE IF d.readdir # Nil
        THEN first \o <<[path |-> path, type |-> d.type, err |-> Err("", path, d.readdir)]>>
        ELSE first \o walkEntries(fs, DirEntries(path))
walkEntries(fs, entries) ==
    IF entries = <<>> THEN <<>>
    ELSE walkDir(fs, Head(entries)) \o walkEntries(fs, Tail(entries))

WalkDir(fs, root) ==
    IF fs[root].lstat # Nil
    THEN <<[path |-> root, type |-> "none", err |-> Err("", root, fs[root].lstat)]>>
    ELSE walkDir(fs, root)

\* Mutant of walkFn: every error ends the traversal, permission-denied included.
walkFnAnyError(call) ==
    IF call.err # NoErr
    THEN [ret |-> call.err, send |-> FALSE]
    ELSE IF call.type = "regular"
    THEN [ret |-> NoErr, send |-> TRUE]
    ELSE [ret |-> NoErr, send |-> FALSE]

\* The callback scanPaths hands to WalkDir: the error it returns and whether it
\* sends the path on the paths channel.
walkFn(call) ==
    IF call.err # NoErr
    THEN IF IsPermission(call.err)
         THEN [ret |-> NoErr, send |-> FALSE]
         ELSE [ret |-> call.err, send |-> FALSE]
    ELSE IF call.type = "regular"
    THEN [ret |-> NoErr, send |-> TRUE]
    ELSE [ret |-> NoErr, send |-> FALSE]

\* Mutant of Join: the new error replaces the errors recorded so far.
JoinOverwrite(joined, err) == IF err = NoErr THEN joined ELSE <<err>>

\* errors.Join(walkErr, err): the joined error as the list of its causes
\* (nil is the empty list); a nil argument is discarded.
Join(joined, err) == IF err = NoErr THEN joined ELSE Append(joined, err)

\* filepath.EvalSymlinks(root): the resolved path, cleaned, and the error
EvalSymlinks(fs, root) ==
    LET n == fs[root]
    IN  IF n.lstat # Nil THEN [path |-> "", err |-> n.lstat]
        ELSE IF n.type = "symlink" THEN [path |-> Clean(n.link), err |-> Nil]
        ELSE [path |-> Clean(root), err |-> Nil]

\* os.Stat(r): the error
Stat(fs, r) == IF r \in Paths THEN fs[r].lstat ELSE ErrNotExist

\* Mutant of resolveFrom: the roots are compared by their raw names only.
RECURSIVE resolveFromRawOnly(_, _, _, _)
resolveFromRawOnly(fs, roots, resolved, seen) ==
    IF roots = <<>> THEN resolved
    ELSE LET root == Head(roots)
         IN  IF root \in seen
             THEN resolveFromRawOnly(fs, Tail(roots), resolved, seen)
             ELSE resolveFromRawOnly(fs, Tail(roots), Append(resolved, root),
                                     seen \cup {root})

\* resolveRoots(roots)
RECURSIVE resolveFrom(_, _, _, _)
resolveFrom(fs, roots, resolved, seen) ==
    IF roots = <<>> THEN resolved
    ELSE LET root == Head(roots)
             ev == EvalSymlinks(fs, root)
             r == IF ev.err = Nil THEN ev.path ELSE root
         IN  IF Stat(fs, r) = Nil
             THEN IF r \in seen
                  THEN resolveFrom(fs, Tail(roots), resolved, seen)
                  ELSE resolveFrom(fs, Tail(roots), Append(resolved, r), seen \cup {r})
             ELSE IF root \in seen
                  THEN resolveFrom(fs, Tail(roots), resolved, seen)
                  ELSE resolveFrom(fs, Tail(roots), Append(resolved, root), seen \cup {root})
resolveRoots(fs, roots) == resolveFrom(fs, roots, <<>>, {})

\* ------------------------------------------------------------------------
\* Rendering (streamMatches and its formatters); a line is a list of tokens
\* ------------------------------------------------------------------------

\* what os.Getwd returns during the run: Nil, or the error it fails with
VARIABLE getwd

\* the working directory filepath.Abs joins a relative path to
Cwd == "/cwd/"

\* filepath.Abs(path): an absolute path is cleaned; a relative one is joined
\* to the working directory and cleaned, which fails when os.Getwd fails
Abs(path) ==
    IF IsAbs(path) THEN [path |-> <<Clean(path)>>, err |-> Nil]
    ELSE IF getwd # Nil THEN [path |-> <<>>, err |-> getwd]
    ELSE [path |-> <<Cwd, Clean(path)>>, err |-> Nil]

\* formatPath(path): the absolute path, or path itself when Abs fails
formatPath(path) ==
    LET ap == Abs(path)
    IN  IF ap.err = Nil THEN ap.path ELSE <<path>>

\* marshalString(v): the JSON string literal
marshalString(v) == <<"QUOTE">> \o v \o <<"QUOTE">>

\* Mutant of formatJSONLine: the size is written whether asked for or not.
formatJSONLineAlwaysSize(m, showSize) ==
    <<"{", "path:">> \o marshalString(formatPath(m.Path))
        \o <<",", "size:", ToString(m.Size), "}">>

\* formatJSONLine(m, showSize)
formatJSONLine(m, showSize) ==
    IF showSize
    THEN <<"{", "path:">> \o marshalString(formatPath(m.Path))
            \o <<",", "size:", ToString(m.Size), "}">>
    ELSE <<"{", "path:">> \o marshalString(formatPath(m.Path)) \o <<"}">>

\* formatJSONEntry(m, showSize)
formatJSONEntry(m, showSize) ==
    IF showSize
    THEN <<"    {", "NL", "      path:">> \o marshalString(formatPath(m.Path))
            \o <<",", "NL", "      size:", ToString(m.Size), "NL", "    }">>
    ELSE <<"    {", "NL", "      path:">> \o marshalString(formatPath(m.Path))
            \o <<"NL", "    }">>

\* formatPlainMatch(m, showSize)
formatPlainMatch(m, showSize) ==
    IF ~showSize
    THEN formatPath(m.Path)
    ELSE formatPath(m.Path) \o <<" (", ToString(m.Size), " bytes)">>

\* ------------------------------------------------------------------------
\* State
\* ------------------------------------------------------------------------

VARIABLES
    fsys,        \* the file system
    entry,       \* "main" or "find" (findSQLiteFiles)
    args,        \* the roots as given by the caller
    workers,     \* the worker count
    flags,       \* main: [json, jsonl, size, version, path]
    roots,       \* the roots scanPaths traverses
    mainPc,      \* position of the calling goroutine
    paths,       \* chan string: buffered items
    matches,     \* chan matchResult: buffered items
    errs,        \* chan error: buffered items
    closed,      \* per channel, the number of close() calls
    workerPc,    \* per worker: "idle", "recv", "sendMatch", "sendErr", "done"
    workerItem,  \* per worker: the match or error it is about to send
    walkPc,      \* per root index: "idle", "walk", "lock", "locked", "return", "done"
    walkPos,     \* per root index: the next WalkDir callback call
    walkRet,     \* per root index: the error WalkDir returned
    closerPc,    \* the goroutine that closes paths: "idle", "wait", "done"
    walkErr,     \* the joined walk error (its causes; <<>> is nil)
    walkErrMu,   \* 0, or the root index of the holder
    walkWg,      \* sync.WaitGroup counters
    workerWg,
    resultWg,
    errorWg,
    resPc,       \* result sink: "idle", "header", "recv", "first", "next", "done"
    curr,        \* result sink, pretty JSON: the look-ahead record
    errPc,       \* error sink: "idle", "recv", "done"
    out,         \* findSQLiteFiles: the collected matches
    stdout,      \* main: lines written to standard output
    stderr,      \* main: lines written to standard error
    scanRet,     \* the value scanPaths returned to its caller
    ret,         \* what findSQLiteFiles returned
    panicked,    \* a goroutine panicked (send on closed channel, double close)
    walkSent,    \* history: per root index, the paths its traversal has sent
    enqCount,    \* history: per path, the number of sends on paths
    probeCount,  \* history: per path, the number of checkSQLiteMagic calls
    matchCount,  \* history: per path, the number of sends on matches
    errCount,    \* history: per path, the number of sends on errs
    probeRes,    \* history: per path, what its last checkSQLiteMagic call returned
    received     \* history: the records the result sink has received, in order

config == <<fsys, getwd, entry, args, workers, flags>>
chans == <<paths, matches, errs, closed>>
workerVars == <<workerPc, workerItem, workerWg>>
walkVars == <<walkPc, walkPos, walkRet, walkErr, walkErrMu, walkWg>>
sinkVars == <<resPc, curr, errPc, out, stdout, stderr, resultWg, errorWg>>
history == <<walkSent, enqCount, probeCount, matchCount, errCount, probeRes,
            received>>
vars == <<config, roots, mainPc, chans, workerVars, walkVars, closerPc,
          sinkVars, scanRet, ret, panicked, history>>

None == [Path |-> "", Size |-> -1]
NotReturned == [returned |-> FALSE, out |-> <<>>, err |-> <<>>]
Line(kind, errors) == [kind |-> kind, errs |-> errors]

Cap(ch) ==
    CASE ch = "paths"   -> workers * PathsCapFactor
      [] ch = "matches" -> workers * MatchesCapFactor
      [] ch = "errs"    -> workers * ErrsCapFactor

Workers == 1 .. workers
RootIdx == 1 .. Len(roots)
\* the traversal goroutines scanPaths has set up
Walkers == DOMAIN walkPc

\* ------------------------------------------------------------------------
\* Inputs
\* ------------------------------------------------------------------------

\* the assignments of kinds to the files of the tree
AllGood == [p \in FilePaths |-> "good"]
Sparse == ("a/f" :> "short" @@ "a/s/g" :> "good" @@ "a/s/h" :> "empty" @@ "a/t" :> "symlink")
Faulty == ("a/f" :> "long" @@ "a/s/g" :> "eopen" @@ "a/s/h" :> "estat" @@ "a/t" :> "short")
Mixed == ("a/f" :> "eperm" @@ "a/s/g" :> "other" @@ "a/s/h" :> "eread" @@ "a/t" :> "good")

\* a scan: the file system, the positional paths, the --path flag (main reads
\* it when there are no positional paths) and the outcome of os.Getwd
Scenario(kinds, sdir, rootList) ==
    [fs |-> World(kinds, sdir), args |-> rootList, path |-> ".", wd |-> Nil]

\* the scans explored: a file system and the root list handed to the scan
Scenarios ==
    { Scenario(AllGood, Nil, <<"a">>),
      Scenario(Sparse, Nil, <<"a", "a/s">>),
      Scenario(AllGood, Nil, <<"a/s", "a/s">>),
      Scenario(AllGood, Nil, <<"a/s", "x">>),
      Scenario(AllGood, Nil, <<"y", "a/t">>),
      Scenario(AllGood, ErrIO, <<"a", "a/t">>),
      Scenario(AllGood, ErrPermission, <<"a">>),
      Scenario(Faulty, Nil, <<"a", "x">>),
      Scenario(Faulty, ErrIO, <<"x", "a">>),
      Scenario(Mixed, ErrPermission, <<"a">>),
      Scenario(Mixed, Nil, <<"l", "a/s">>),
      Scenario(Mixed, ErrIO, <<"a/s", "a/f">>),
      Scenario(Sparse, Nil, <<>>),
      [Scenario(AllGood, Nil, <<>>) EXCEPT !.path = "l"],
      Scenario(AllGood, Nil, <<"/v", "./a/t">>),
      [Scenario(AllGood, Nil, <<"/v", "./a/t">>) EXCEPT !.wd = ErrIO] }

\* the values given to --path
PathFlags == {".", "l", "x"}

\* main's flags: --json, --jsonl, --size, --version and --path
FlagSets ==
    [json : BOOLEAN, jsonl : BOOLEAN, size : BOOLEAN, version : BOOLEAN,
     path : PathFlags]
\* the flags' default values
NoFlags ==
    [json |-> FALSE, jsonl |-> FALSE, size |-> FALSE, version |-> FALSE,
     path |-> "."]
\* main's flags in a scenario; findSQLiteFiles has none
FlagsOf(sc, e) ==
    IF e = "main" THEN {f \in FlagSets : f.path = sc.path} ELSE {NoFlags}

ZeroCount == [p \in Paths |-> 0]
\* the entry of probeRes for a path no worker has probed
NotProbed == [res |-> NoMatch, ok |-> FALSE, err |-> NoErr]

\* the state before the first statement of main or findSQLiteFiles runs
InitState ==
    /\ roots = <<>>
    /\ mainPc = "start"
    /\ paths = <<>> /\ matches = <<>> /\ errs = <<>>
    /\ closed = [ch \in {"paths", "matches", "errs"} |-> 0]
    /\ workerPc = [w \in 1 .. workers |-> "idle"]
    /\ workerItem = [w \in 1 .. workers |-> [match |-> None, err |-> NoErr]]
    /\ walkPc = <<>> /\ walkPos = <<>> /\ walkRet = <<>>
    /\ closerPc = "idle"
    /\ walkErr = <<>> /\ walkErrMu = 0
    /\ walkWg = 0 /\ workerWg = 0 /\ resultWg = 0 /\ errorWg = 0
    /\ resPc = "idle" /\ curr = None /\ errPc = "idle"
    /\ out = <<>> /\ stdout = <<>> /\ stderr = <<>>
    /\ scanRet = <<>> /\ ret = NotReturned
    /\ panicked = FALSE
    /\ walkSent = <<>>
    /\ enqCount = ZeroCount /\ probeCount = ZeroCount
    /\ matchCount = ZeroCount /\ errCount = ZeroCount
    /\ probeRes = [p \in Paths |-> NotProbed]
    /\ received = <<>>

\* a scan with a positive worker count
Init ==
    /\ entry \in {"main", "find"}
    /\ \E sc \in Scenarios :
          /\ fsys = sc.fs /\ args = sc.args /\ getwd = sc.wd
          /\ flags \in FlagsOf(sc, entry)
    /\ workers \in 1 .. MaxWorkers
    /\ InitState

\* the names a caller can pass as roots: directories, regular files, symbolic
\* links, a missing path and a path that cannot be examined
RootNames == {"a/s", "a/f", "a/t", "l", "x", "y", "/v", "./a/t"}
RootLists == UNION {[1 .. n -> RootNames] : n \in 0 .. MaxRoots}

\* main called with any list of positional paths and any --path; in the
\* Sparse world "a/t" is a symbolic link to "a/f" and "l" one to "a/s"
InitAnyRoots ==
    /\ fsys = World(Sparse, Nil)
    /\ getwd = Nil
    /\ args \in RootLists
    /\ entry = "main"
    /\ workers = 1
    /\ flags \in {[NoFlags EXCEPT !.path = p] : p \in PathFlags}
    /\ InitState

\* File contents around the signature: every prefix of it, the signature with
\* one byte changed, and the signature itself, the last two followed by up to
\* MaxTail more bytes.
Altered(k) == [sqliteMagic EXCEPT ![k] = (@ + 1) % 256]
Tails == {[i \in 1 .. n |-> i] : n \in 0 .. MaxTail}
ProbeContents ==
    {SubSeq(sqliteMagic, 1, n) : n \in 0 .. Len(sqliteMagic)}
        \cup {Altered(k) \o t : k \in DOMAIN sqliteMagic, t \in Tails}
        \cup {sqliteMagic \o t : t \in Tails}
\* a regular file with any of these contents and any outcome of open, read and stat
ProbeNodes ==
    {[FileNode(d) EXCEPT !.open = o, !.read = r, !.stat = st] :
        d \in ProbeContents, o \in {Nil, ErrNotExist, ErrPermission},
        r \in {Nil, ErrIO}, st \in {Nil, ErrIO}}

\* findSQLiteFiles, and main --json, on the single file "a/t" (and a missing
\* root), one worker
InitAnyFile ==
    /\ \E node \in ProbeNodes :
          fsys = [World(AllGood, Nil) EXCEPT !["a/t"] = node, !["./a/t"] = node]
    /\ getwd = Nil
    /\ args = <<"x", "a/t">>
    /\ entry \in {"find", "main"}
    /\ workers = 1
    /\ flags = IF entry = "main" THEN [NoFlags EXCEPT !.json = TRUE] ELSE NoFlags
    /\ InitState

\* every worker count a caller can pass, zero and negative ones included
WorkerCounts == -MaxWorkers .. MaxWorkers

InitAnyWorkers ==
    /\ entry \in {"main", "find"}
    /\ \E sc \in Scenarios :
          /\ fsys = sc.fs /\ args = sc.args /\ getwd = sc.wd
          /\ flags \in FlagsOf(sc, entry)
    /\ workers \in WorkerCounts
    /\ InitState

\* ------------------------------------------------------------------------
\* The calling goroutine: main / findSQLiteFiles, then scanPaths
\* ------------------------------------------------------------------------

\* main lines 68-72: the positional paths, or the --path root when there are
\* none
positions == IF args = <<>> THEN <<flags.path>> ELSE args

\* main lines 63-97, findSQLiteFiles lines 110-129: with --version main prints
\* the version and returns; otherwise resolve the roots, check the worker
\* count (main only), make the channels (make panics on a negative capacity)
\* and start the two sinks.
Start ==
    /\ mainPc = "start"
    /\ IF entry = "main" /\ flags.version
       THEN /\ stdout' = Append(stdout, <<version>>)
            /\ mainPc' = "exit"
            /\ UNCHANGED <<roots, resPc, errPc, resultWg, errorWg, stderr, panicked>>
       ELSE /\ roots' = IF entry = "main" THEN resolveRoots(fsys, positions) ELSE args
            /\ IF entry = "main" /\ workers <= 0
               THEN /\ stderr' = Append(stderr, Line("workers must be > 0", <<>>))
                    /\ mainPc' = "exit"
                    /\ UNCHANGED <<resPc, errPc, resultWg, errorWg, stdout, panicked>>
               ELSE IF workers * MatchesCapFactor < 0
               THEN /\ panicked' = TRUE
                    /\ mainPc' = "exit"
                    /\ UNCHANGED <<resPc, errPc, resultWg, errorWg, stdout, stderr>>
               ELSE /\ resultWg' = 1
                    /\ errorWg' = 1
                    /\ errPc' = "recv"
                    /\ resPc' = IF flags.json /\ ~flags.jsonl THEN "header" ELSE "recv"
                    /\ mainPc' = "scan"
                    /\ UNCHANGED <<stdout, stderr, panicked>>
    /\ UNCHANGED <<config, chans, workerVars, walkVars, closerPc, curr, out,
                   scanRet, ret, history>>

\* scanPaths lines 231-251: make paths, start the workers.
ScanStart ==
    /\ mainPc = "scan"
    /\ paths' = <<>>
    /\ workerWg' = workers
    /\ workerPc' = [w \in Workers |-> "recv"]
    /\ walkPc' = [i \in RootIdx |-> "idle"]
    /\ walkPos' = [i \in RootIdx |-> 1]
    /\ walkRet' = [i \in RootIdx |-> NoErr]
    /\ walkSent' = [i \in RootIdx |-> <<>>]
    /\ mainPc' = IF roots = <<>> THEN "closer" ELSE "walkers"
    /\ UNCHANGED <<config, roots, matches, errs, closed, workerItem, walkErr,
                   walkErrMu, walkWg, closerPc, sinkVars, scanRet, ret,
                   panicked, enqCount, probeCount, matchCount, errCount,
                   probeRes, received>>

\* scanPaths lines 257-259: the loop over roots starts one traversal goroutine.
SpawnWalker ==
    /\ mainPc = "walkers"
    /\ LET i == CHOOSE j \in RootIdx :
                  walkPc[j] = "idle" /\ \A k \in 1 .. j - 1 : walkPc[k] # "idle"
       IN  /\ walkWg' = walkWg + 1
           /\ walkPc' = [walkPc EXCEPT ![i] = "walk"]
           /\ mainPc' = IF i = Len(roots) THEN "closer" ELSE "walkers"
    /\ UNCHANGED <<config, roots, chans, workerVars, walkPos, walkRet, walkErr,
                   walkErrMu, closerPc, sinkVars, scanRet, ret, panicked, history>>

\* Mutant of SpawnCloser: the goroutine that closes paths is never started.
SpawnCloserMissing ==
    /\ mainPc = "closer"
    /\ mainPc' = "waitWorkers"
    /\ UNCHANGED <<config, roots, chans, workerVars, walkVars, closerPc,
                   sinkVars, scanRet, ret, panicked, history>>

\* scanPaths lines 281-284: start the goroutine that closes paths.
SpawnCloser ==
    /\ mainPc = "closer"
    /\ closerPc' = "wait"
    /\ mainPc' = "waitWorkers"
    /\ UNCHANGED <<config, roots, chans, workerVars, walkVars, sinkVars,
                   scanRet, ret, panicked, history>>

\* close(ch): closing a closed channel panics
Close(ch) ==
    /\ closed' = [closed EXCEPT ![ch] = @ + 1]
    /\ panicked' = (panicked \/ closed[ch] > 0)

\* Mutant of WaitWorkers: scanPaths goes on to close matches without waiting.
WaitWorkersNoWait ==
    /\ mainPc = "waitWorkers"
    /\ mainPc' = "closeMatches"
    /\ UNCHANGED <<config, roots, chans, workerVars, walkVars, closerPc,
                   sinkVars, scanRet, ret, panicked, history>>

\* scanPaths line 286: workerWg.Wait()
WaitWorkers ==
    /\ mainPc = "waitWorkers"
    /\ workerWg = 0
    /\ mainPc' = "closeMatches"
    /\ UNCHANGED <<config, roots, chans, workerVars, walkVars, closerPc,
                   sinkVars, scanRet, ret, panicked, history>>

\* scanPaths line 287: close(matches)
CloseMatches ==
    /\ mainPc = "closeMatches"
    /\ Close("matches")
    /\ mainPc' = "closeErrs"
    /\ UNCHANGED <<config, roots, paths, matches, errs, workerVars, walkVars,
                   closerPc, sinkVars, scanRet, ret, history>>

\* scanPaths lines 288-290: close(errs); return walkErr
CloseErrs ==
    /\ mainPc = "closeErrs"
    /\ Close("errs")
    /\ scanRet' = walkErr
    /\ mainPc' = "waitResults"
    /\ UNCHANGED <<config, roots, paths, matches, errs, workerVars, walkVars,
                   closerPc, sinkVars, ret, history>>

\* Mutant of WaitResults: the caller does not wait for the result sink.
WaitResultsNoWait ==
    /\ mainPc = "waitResults"
    /\ mainPc' = "waitErrs"
    /\ UNCHANGED <<config, roots, chans, workerVars, walkVars, closerPc,
                   sinkVars, scanRet, ret, panicked, history>>

\* main line 101 printWg.Wait(), findSQLiteFiles line 132 collectWg.Wait()
WaitResults ==
    /\ mainPc = "waitResults"
    /\ resultWg = 0
    /\ mainPc' = "waitErrs"
    /\ UNCHANGED <<config, roots, chans, workerVars, walkVars, closerPc,
                   sinkVars, scanRet, ret, panicked, history>>

\* Mutant of WaitErrs: the caller does not wait for the error sink.
WaitErrsNoWait ==
    /\ mainPc = "waitErrs"
    /\ mainPc' = "report"
    /\ UNCHANGED <<config, roots, chans, workerVars, walkVars, closerPc,
                   sinkVars, scanRet, ret, panicked, history>>

\* main line 102 warnWg.Wait(), findSQLiteFiles line 133 drainWg.Wait()
WaitErrs ==
    /\ mainPc = "waitErrs"
    /\ errorWg = 0
    /\ mainPc' = "report"
    /\ UNCHANGED <<config, roots, chans, workerVars, walkVars, closerPc,
                   sinkVars, scanRet, ret, panicked, history>>

\* main lines 104-106: report the walk error; findSQLiteFiles line 135:
\* return out, walkErr
Report ==
    /\ mainPc = "report"
    /\ IF entry = "main"
       THEN /\ stderr' = IF scanRet # <<>>
                         THEN Append(stderr, Line("scan completed with walk error:", scanRet))
                         ELSE stderr
            /\ ret' = ret
       ELSE /\ ret' = [returned |-> TRUE, out |-> out, err |-> scanRet]
            /\ stderr' = stderr
    /\ mainPc' = "done"
    /\ UNCHANGED <<config, roots, chans, workerVars, walkVars, closerPc, resPc,
                   curr, errPc, out, stdout, resultWg, errorWg, scanRet,
                   panicked, history>>

\* ------------------------------------------------------------------------
\* Traversal goroutines (scanPaths lines 259-278)
\* ------------------------------------------------------------------------

Calls(i) == WalkDir(fsys, roots[i])

\* what follows the callback's return: WalkDir goes on, or returns (the error,
\* or nil after the last entry); the goroutine then goes to record a non-nil
\* error, or to return
AfterCall(i, r) ==
    /\ walkRet' = [walkRet EXCEPT ![i] = r.ret]
    /\ IF r.ret # NoErr
       THEN /\ walkPc' = [walkPc EXCEPT ![i] = "lock"]
            /\ UNCHANGED <<walkPos, walkWg>>
       ELSE IF walkPos[i] = Len(Calls(i))
       THEN /\ walkPc' = [walkPc EXCEPT ![i] = "return"]
            /\ UNCHANGED <<walkPos, walkWg>>
       ELSE /\ walkPos' = [walkPos EXCEPT ![i] = @ + 1]
            /\ UNCHANGED <<walkPc, walkWg>>

\* a callback call that sends nothing: a directory, a non-regular entry or an error
WalkVisit(i) ==
    /\ walkPc[i] = "walk"
    /\ LET r == walkFn(Calls(i)[walkPos[i]])
       IN  /\ ~r.send
           /\ AfterCall(i, r)
    /\ UNCHANGED <<config, roots, mainPc, chans, workerVars, walkErr, walkErrMu,
                   closerPc, sinkVars, scanRet, ret, panicked, history>>

\* Mutant of WalkSend: a traversal gives up once any root has recorded an error.
WalkSendUnlessFailed(i) ==
    /\ walkPc[i] = "walk"
    /\ LET call == Calls(i)[walkPos[i]]
           r == walkFn(call)
       IN  /\ r.send
           /\ IF walkErr # <<>>
              THEN /\ walkPc' = [walkPc EXCEPT ![i] = "done"]
                   /\ walkWg' = walkWg - 1
                   /\ UNCHANGED <<paths, enqCount, walkSent, walkPos, walkRet>>
              ELSE /\ Len(paths) < Cap("paths")
                   /\ paths' = Append(paths, call.path)
                   /\ enqCount' = [enqCount EXCEPT ![call.path] = @ + 1]
                   /\ walkSent' = [walkSent EXCEPT ![i] = Append(@, call.path)]
                   /\ AfterCall(i, r)
    /\ UNCHANGED <<config, roots, mainPc, matches, errs, closed, workerVars,
                   walkErr, walkErrMu, closerPc, sinkVars, scanRet, ret,
                   panicked, probeCount, matchCount, errCount, probeRes,
                   received>>

\* Mutant of WalkSend: the send never waits for room in paths.
WalkSendUnbounded(i) ==
    /\ walkPc[i] = "walk"
    /\ LET call == Calls(i)[walkPos[i]]
           r == walkFn(call)
       IN  /\ r.send
           /\ paths' = Append(paths, call.path)
           /\ enqCount' = [enqCount EXCEPT ![call.path] = @ + 1]
           /\ walkSent' = [walkSent EXCEPT ![i] = Append(@, call.path)]
           /\ AfterCall(i, r)
    /\ UNCHANGED <<config, roots, mainPc, matches, errs, closed, workerVars,
                   walkErr, walkErrMu, closerPc, sinkVars, scanRet, ret,
                   panicked, probeCount, matchCount, errCount, probeRes,
                   received>>

\* a callback call on a regular file: paths <- path (blocks while paths is full)
WalkSend(i) ==
    /\ walkPc[i] = "walk"
    /\ LET call == Calls(i)[walkPos[i]]
           r == walkFn(call)
       IN  /\ r.send
           /\ IF closed["paths"] > 0
              THEN /\ panicked' = TRUE
                   /\ UNCHANGED <<paths, enqCount, walkSent>>
              ELSE /\ Len(paths) < Cap("paths")
                   /\ paths' = Append(paths, call.path)
                   /\ enqCount' = [enqCount EXCEPT ![call.path] = @ + 1]
                   /\ walkSent' = [walkSent EXCEPT ![i] = Append(@, call.path)]
                   /\ UNCHANGED panicked
           /\ AfterCall(i, r)
    /\ UNCHANGED <<config, roots, mainPc, matches, errs, closed, workerVars,
                   walkErr, walkErrMu, closerPc, sinkVars, scanRet, ret,
                   probeCount, matchCount, errCount, probeRes, received>>

\* Mutant of WalkLock: the lock is taken without waiting for its holder.
WalkLockNoExclusion(i) ==
    /\ walkPc[i] = "lock"
    /\ walkErrMu' = i
    /\ walkPc' = [walkPc EXCEPT ![i] = "locked"]
    /\ UNCHANGED <<config, roots, mainPc, chans, workerVars, walkPos, walkRet,
                   walkErr, walkWg, closerPc, sinkVars, scanRet, ret, panicked,
                   history>>

\* line 274: walkErrMu.Lock()
WalkLock(i) ==
    /\ walkPc[i] = "lock"
    /\ walkErrMu = 0
    /\ walkErrMu' = i
    /\ walkPc' = [walkPc EXCEPT ![i] = "locked"]
    /\ UNCHANGED <<config, roots, mainPc, chans, workerVars, walkPos, walkRet,
                   walkErr, walkWg, closerPc, sinkVars, scanRet, ret, panicked,
                   history>>

\* lines 275-276: walkErr = errors.Join(walkErr, err); walkErrMu.Unlock()
WalkJoin(i) ==
    /\ walkPc[i] = "locked"
    /\ walkErr' = Join(walkErr, walkRet[i])
    /\ walkErrMu' = 0
    /\ walkPc' = [walkPc EXCEPT ![i] = "return"]
    /\ UNCHANGED <<config, roots, mainPc, chans, workerVars, walkPos, walkRet,
                   walkWg, closerPc, sinkVars, scanRet, ret, panicked, history>>

\* line 260, run as the goroutine returns: the deferred walkWg.Done()
WalkDone(i) ==
    /\ walkPc[i] = "return"
    /\ walkPc' = [walkPc EXCEPT ![i] = "done"]
    /\ walkWg' = walkWg - 1
    /\ UNCHANGED <<config, roots, mainPc, chans, workerVars, walkPos, walkRet,
                   walkErr, walkErrMu, closerPc, sinkVars, scanRet, ret,
                   panicked, history>>

\* Mutant of CloserClose: paths is closed without waiting for the traversals.
CloserCloseNoWait ==
    /\ closerPc = "wait"
    /\ Close("paths")
    /\ closerPc' = "done"
    /\ UNCHANGED <<config, roots, mainPc, paths, matches, errs, workerVars,
                   walkVars, sinkVars, scanRet, ret, history>>

\* lines 281-284: walkWg.Wait(); close(paths)
CloserClose ==
    /\ closerPc = "wait"
    /\ walkWg = 0
    /\ Close("paths")
    /\ closerPc' = "done"
    /\ UNCHANGED <<config, roots, mainPc, paths, matches, errs, workerVars,
                   walkVars, sinkVars, scanRet, ret, history>>

\* ------------------------------------------------------------------------
\* Workers (scanPaths lines 236-250)
\* ------------------------------------------------------------------------

\* Mutant of AfterProbe: a probe error is dropped instead of being sent on errs.
AfterProbeErrorDropped(p, r) ==
    IF r.err # NoErr
    THEN [pc |-> "recv", item |-> None, err |-> NoErr]
    ELSE IF r.ok
    THEN [pc |-> "sendMatch", item |-> r.res, err |-> NoErr]
    ELSE [pc |-> "recv", item |-> None, err |-> NoErr]

\* what a worker does with the outcome of a probe of p
AfterProbe(p, r) ==
    IF r.err # NoErr
    THEN IF ~IsPermission(r.err)
         THEN [pc |-> "sendErr", item |-> None, err |-> Err(p, r.err.path, r.err.errno)]
         ELSE [pc |-> "recv", item |-> None, err |-> NoErr]
    ELSE IF r.ok
    THEN [pc |-> "sendMatch", item |-> r.res, err |-> NoErr]
    ELSE [pc |-> "recv", item |-> None, err |-> NoErr]

\* Mutant of WorkerRecv: the worker takes the path sent last, not the oldest.
WorkerRecvNewest(w) ==
    /\ workerPc[w] = "recv"
    /\ paths # <<>>
    /\ LET p == paths[Len(paths)]
           a == AfterProbe(p, checkSQLiteMagic(fsys, p))
       IN  /\ paths' = SubSeq(paths, 1, Len(paths) - 1)
           /\ probeCount' = [probeCount EXCEPT ![p] = @ + 1]
           /\ probeRes' = [probeRes EXCEPT ![p] = checkSQLiteMagic(fsys, p)]
           /\ workerPc' = [workerPc EXCEPT ![w] = a.pc]
           /\ workerItem' = [workerItem EXCEPT ![w] = [match |-> a.item, err |-> a.err]]
    /\ UNCHANGED <<config, roots, mainPc, matches, errs, closed, workerWg,
                   walkVars, closerPc, sinkVars, scanRet, ret, panicked,
                   walkSent, enqCount, matchCount, errCount, received>>

\* p := <-paths; res, ok, err := checkSQLiteMagic(p)
WorkerRecv(w) ==
    /\ workerPc[w] = "recv"
    /\ paths # <<>>
    /\ LET p == Head(paths)
           a == AfterProbe(p, checkSQLiteMagic(fsys, p))
       IN  /\ paths' = Tail(paths)
           /\ probeCount' = [probeCount EXCEPT ![p] = @ + 1]
           /\ probeRes' = [probeRes EXCEPT ![p] = checkSQLiteMagic(fsys, p)]
           /\ workerPc' = [workerPc EXCEPT ![w] = a.pc]
           /\ workerItem' = [workerItem EXCEPT ![w] = [match |-> a.item, err |-> a.err]]
    /\ UNCHANGED <<config, roots, mainPc, matches, errs, closed, workerWg,
                   walkVars, closerPc, sinkVars, scanRet, ret, panicked,
                   walkSent, enqCount, matchCount, errCount, received>>

\* Mutant of WorkerExit: a worker leaves as soon as paths is closed, drained or not.
WorkerExitOnClose(w) ==
    /\ workerPc[w] = "recv"
    /\ closed["paths"] > 0
    /\ workerPc' = [workerPc EXCEPT ![w] = "done"]
    /\ workerWg' = workerWg - 1
    /\ UNCHANGED <<config, roots, mainPc, chans, workerItem, walkVars, closerPc,
                   sinkVars, scanRet, ret, panicked, history>>

\* the range over paths ends: paths is closed and drained; workerWg.Done()
WorkerExit(w) ==
    /\ workerPc[w] = "recv"
    /\ paths = <<>>
    /\ closed["paths"] > 0
    /\ workerPc' = [workerPc EXCEPT ![w] = "done"]
    /\ workerWg' = workerWg - 1
    /\ UNCHANGED <<config, roots, mainPc, chans, workerItem, walkVars, closerPc,
                   sinkVars, scanRet, ret, panicked, history>>

\* Mutant of WorkerSendMatch: a non-blocking send that drops the record when
\* matches is full.
WorkerSendMatchOrDrop(w) ==
    /\ workerPc[w] = "sendMatch"
    /\ LET m == workerItem[w].match
       IN  IF Len(matches) < Cap("matches")
           THEN /\ matches' = Append(matches, m)
                /\ matchCount' = [matchCount EXCEPT ![m.Path] = @ + 1]
           ELSE UNCHANGED <<matches, matchCount>>
    /\ workerPc' = [workerPc EXCEPT ![w] = "recv"]
    /\ workerItem' = [workerItem EXCEPT ![w] = [match |-> None, err |-> NoErr]]
    /\ UNCHANGED <<config, roots, mainPc, paths, errs, closed, workerWg,
                   walkVars, closerPc, sinkVars, scanRet, ret, panicked,
                   walkSent, enqCount, probeCount, errCount, probeRes,
                   received>>

\* matches <- res (blocks while matches is full)
WorkerSendMatch(w) ==
    /\ workerPc[w] = "sendMatch"
    /\ LET m == workerItem[w].match
       IN  IF closed["matches"] > 0
           THEN /\ panicked' = TRUE
                /\ UNCHANGED <<matches, matchCount>>
           ELSE /\ Len(matches) < Cap("matches")
                /\ matches' = Append(matches, m)
                /\ matchCount' = [matchCount EXCEPT ![m.Path] = @ + 1]
                /\ UNCHANGED panicked
    /\ workerPc' = [workerPc EXCEPT ![w] = "recv"]
    /\ workerItem' = [workerItem EXCEPT ![w] = [match |-> None, err |-> NoErr]]
    /\ UNCHANGED <<config, roots, mainPc, paths, errs, closed, workerWg,
                   walkVars, closerPc, sinkVars, scanRet, ret, walkSent,
                   enqCount, probeCount, errCount, probeRes, received>>

\* errs <- fmt.Errorf("%s: %w", p, err) (blocks while errs is full)
WorkerSendErr(w) ==
    /\ workerPc[w] = "sendErr"
    /\ LET e == workerItem[w].err
       IN  IF closed["errs"] > 0
           THEN /\ panicked' = TRUE
                /\ UNCHANGED <<errs, errCount>>
           ELSE /\ Len(errs) < Cap("errs")
                /\ errs' = Append(errs, e)
                /\ errCount' = [errCount EXCEPT ![e.prefix] = @ + 1]
                /\ UNCHANGED panicked
    /\ workerPc' = [workerPc EXCEPT ![w] = "recv"]
    /\ workerItem' = [workerItem EXCEPT ![w] = [match |-> None, err |-> NoErr]]
    /\ UNCHANGED <<config, roots, mainPc, paths, matches, closed, workerWg,
                   walkVars, closerPc, sinkVars, scanRet, ret, walkSent,
                   enqCount, probeCount, matchCount, probeRes, received>>

\* ------------------------------------------------------------------------
\* Result sink: streamMatches (main) or the collector (findSQLiteFiles)
\* ------------------------------------------------------------------------

\* streamMatches lines 146-148: in pretty-JSON mode the sink first prints the
\* two header lines.
ResultHeader ==
    /\ resPc = "header"
    /\ stdout' = stdout \o <<(<<"{">>), (<<"  entries: [">>)>>
    /\ resPc' = "first"
    /\ UNCHANGED <<config, roots, mainPc, chans, workerVars, walkVars, closerPc,
                   curr, errPc, out, stderr, resultWg, errorWg, scanRet, ret,
                   panicked, history>>

\* Mutant of ResultRecv: the newest record is written ahead of the older ones
\* (pretty JSON: the record just received is printed and the older one kept).
ResultRecvNewestFirst ==
    /\ resPc \in {"recv", "first", "next"}
    /\ matches # <<>>
    /\ LET m == Head(matches)
       IN  /\ matches' = Tail(matches)
           /\ received' = Append(received, m)
           /\ IF entry = "find"
              THEN /\ out' = Append(out, m)
                   /\ UNCHANGED <<stdout, curr, resPc>>
              ELSE IF flags.jsonl
              THEN /\ stdout' = <<formatJSONLine(m, flags.size)>> \o stdout
                   /\ UNCHANGED <<out, curr, resPc>>
              ELSE IF flags.json
              THEN /\ stdout' = IF resPc = "first" THEN stdout
                                ELSE Append(stdout, formatJSONEntry(m, flags.size) \o <<",">>)
                   /\ curr' = IF resPc = "first" THEN m ELSE curr
                   /\ resPc' = "next"
                   /\ UNCHANGED out
              ELSE /\ stdout' = <<formatPlainMatch(m, flags.size)>> \o stdout
                   /\ UNCHANGED <<out, curr, resPc>>
    /\ UNCHANGED <<config, roots, mainPc, paths, errs, closed, workerVars,
                   walkVars, closerPc, errPc, stderr, resultWg, errorWg,
                   scanRet, ret, panicked, walkSent, enqCount, probeCount,
                   matchCount, errCount, probeRes>>

\* Mutant of ResultRecv: the sink collects the records instead of writing them.
ResultRecvCollect ==
    /\ resPc \in {"recv", "first", "next"}
    /\ matches # <<>>
    /\ LET m == Head(matches)
       IN  /\ matches' = Tail(matches)
           /\ received' = Append(received, m)
           /\ out' = Append(out, m)
           /\ UNCHANGED <<stdout, curr, resPc>>
    /\ UNCHANGED <<config, roots, mainPc, paths, errs, closed, workerVars,
                   walkVars, closerPc, errPc, stderr, resultWg, errorWg,
                   scanRet, ret, panicked, walkSent, enqCount, probeCount,
                   matchCount, errCount, probeRes>>

\* one record received from matches
ResultRecv ==
    /\ resPc \in {"recv", "first", "next"}
    /\ matches # <<>>
    /\ LET m == Head(matches)
       IN  /\ matches' = Tail(matches)
           /\ received' = Append(received, m)
           /\ IF entry = "find"
              THEN /\ out' = Append(out, m)
                   /\ UNCHANGED <<stdout, curr, resPc>>
              ELSE IF flags.jsonl
              THEN /\ stdout' = Append(stdout, formatJSONLine(m, flags.size))
                   /\ UNCHANGED <<out, curr, resPc>>
              ELSE IF flags.json
              THEN /\ stdout' = IF resPc = "first" THEN stdout
                                ELSE Append(stdout, formatJSONEntry(curr, flags.size) \o <<",">>)
                   /\ curr' = m
                   /\ resPc' = "next"
                   /\ UNCHANGED out
              ELSE /\ stdout' = Append(stdout, formatPlainMatch(m, flags.size))
                   /\ UNCHANGED <<out, curr, resPc>>
    /\ UNCHANGED <<config, roots, mainPc, paths, errs, closed, workerVars,
                   walkVars, closerPc, errPc, stderr, resultWg, errorWg,
                   scanRet, ret, panicked, walkSent, enqCount, probeCount,
                   matchCount, errCount, probeRes>>

\* Mutant of ResultDone: the last entry is written with a comma like the others.
ResultDoneTrailingComma ==
    /\ resPc \in {"recv", "first", "next"}
    /\ matches = <<>>
    /\ closed["matches"] > 0
    /\ stdout' = IF resPc = "first" THEN stdout \o <<(<<"  ]">>), (<<"}">>)>>
                 ELSE IF resPc = "next"
                 THEN stdout \o <<formatJSONEntry(curr, flags.size) \o <<",">>,
                                  (<<"  ]">>), (<<"}">>)>>
                 ELSE stdout
    /\ curr' = None
    /\ resPc' = "done"
    /\ resultWg' = resultWg - 1
    /\ UNCHANGED <<config, roots, mainPc, chans, workerVars, walkVars, closerPc,
                   errPc, out, stderr, errorWg, scanRet, ret, panicked, history>>

\* matches is closed and drained: the sink finishes its output and exits
ResultDone ==
    /\ resPc \in {"recv", "first", "next"}
    /\ matches = <<>>
    /\ closed["matches"] > 0
    /\ stdout' = IF resPc = "first" THEN stdout \o <<(<<"  ]">>), (<<"}">>)>>
                 ELSE IF resPc = "next"
                 THEN stdout \o <<formatJSONEntry(curr, flags.size), (<<"  ]">>), (<<"}">>)>>
                 ELSE stdout
    /\ curr' = None
    /\ resPc' = "done"
    /\ resultWg' = resultWg - 1
    /\ UNCHANGED <<config, roots, mainPc, chans, workerVars, walkVars, closerPc,
                   errPc, out, stderr, errorWg, scanRet, ret, panicked, history>>

\* ------------------------------------------------------------------------
\* Error sink (main lines 92-97, findSQLiteFiles lines 125-129)
\* ------------------------------------------------------------------------

ErrorRecv ==
    /\ errPc = "recv"
    /\ errs # <<>>
    /\ errs' = Tail(errs)
    /\ stderr' = IF entry = "main"
                 THEN Append(stderr, Line("warning:", <<Head(errs)>>))
                 ELSE stderr
    /\ UNCHANGED <<config, roots, mainPc, paths, matches, closed, workerVars,
                   walkVars, closerPc, resPc, curr, errPc, out, stdout,
                   resultWg, errorWg, scanRet, ret, panicked, history>>

ErrorDone ==
    /\ errPc = "recv"
    /\ errs = <<>>
    /\ closed["errs"] > 0
    /\ errPc' = "done"
    /\ errorWg' = errorWg - 1
    /\ UNCHANGED <<config, roots, mainPc, chans, workerVars, walkVars, closerPc,
                   resPc, curr, out, stdout, stderr, resultWg, scanRet, ret,
                   panicked, history>>

\* ------------------------------------------------------------------------
\* Specification
\* ------------------------------------------------------------------------

Next ==
    \/ Start
    \/ ScanStart
    \/ SpawnWalker
    \/ SpawnCloser
    \/ WaitWorkers
    \/ CloseMatches
    \/ CloseErrs
    \/ WaitResults
    \/ WaitErrs
    \/ Report
    \/ CloserClose
    \/ \E i \in Walkers : WalkVisit(i)
    \/ \E i \in Walkers : WalkSend(i)
    \/ \E i \in Walkers : WalkLock(i)
    \/ \E i \in Walkers : WalkJoin(i)
    \/ \E i \in Walkers : WalkDone(i)
    \/ \E w \in Workers : WorkerRecv(w)
    \/ \E w \in Workers : WorkerExit(w)
    \/ \E w \in Workers : WorkerSendMatch(w)
    \/ \E w \in Workers : WorkerSendErr(w)
    \/ ResultHeader
    \/ ResultRecv
    \/ ResultDone
    \/ ErrorRecv
    \/ ErrorDone

Spec == Init /\ [][Next]_vars

\* The Go scheduler runs some runnable goroutine: a step is taken while one
\* is possible.
FairSpec == Spec /\ WF_vars(Next)

\* main up to the start of the scan, for any list of positional paths.
ResolveSpec == InitAnyRoots /\ [][Start]_vars

\* A scan of one file of any content.
ProbeSpec == InitAnyFile /\ [][Next]_vars

\* The program started with any worker count.
AnyWorkersSpec == InitAnyWorkers /\ [][Next]_vars

\* ------------------------------------------------------------------------
\* Derived notions used by the properties
\* ------------------------------------------------------------------------

AllWalkersDone == Len(walkPc) = Len(roots) /\ \A i \in Walkers : walkPc[i] = "done"
AllWorkersDone == \A w \in Workers : workerPc[w] = "done"
SinksDone == resPc = "done" /\ errPc = "done"

\* scanPaths has returned to its caller
ScanReturned == mainPc \in {"waitResults", "waitErrs", "report", "done"}

\* the run is a scan: main was not asked for its version only
Scans == ~(entry = "main" /\ flags.version)

\* the run has returned and every goroutine it started has exited
Finished ==
    /\ mainPc = "done"
    /\ AllWalkersDone /\ closerPc = "done"
    /\ AllWorkersDone
    /\ SinksDone

Range(seq) == {seq[k] : k \in DOMAIN seq}
CountIn(seq, x) == Cardinality({k \in DOMAIN seq : seq[k] = x})
TotalEnqueued == Cardinality({<<i, k>> \in Walkers \X (1 .. Cardinality(Paths)) :
                                 k \in DOMAIN walkSent[i]})

\* The tree, read off the directory listings.
HasParent(p) == \E d \in Paths : p \in Range(DirEntries(d))
Parent(p) == CHOOSE d \in Paths : p \in Range(DirEntries(d))
RECURSIVE Under(_, _), OpenPath(_, _, _)
\* p is root or lies in root's subtree
Under(root, p) == p = root \/ (HasParent(p) /\ Under(root, Parent(p)))
\* every directory from root down to p's parent can be listed
OpenPath(fs, root, p) ==
    p = root \/ (HasParent(p) /\ fs[Parent(p)].readdir = Nil /\ OpenPath(fs, root, Parent(p)))

\* the regular files reachable from root, outside the directories that cannot be listed
ReachableFiles(fs, root) ==
    {p \in Paths : /\ fs[root].lstat = Nil
                   /\ fs[p].type = "regular"
                   /\ Under(root, p)
                   /\ OpenPath(fs, root, p)}

\* root's traversal meets no error other than permission-denied
CleanRoot(fs, root) ==
    /\ fs[root].lstat \in {Nil, ErrPermission}
    /\ \A d \in Paths :
          (fs[root].lstat = Nil /\ fs[d].type = "dir" /\ Under(root, d) /\ OpenPath(fs, root, d))
              => fs[d].readdir \in {Nil, ErrPermission}

\* the file is readable and starts with the 16 signature bytes
Matching(fs, p) ==
    /\ fs[p].type = "regular"
    /\ fs[p].open = Nil /\ fs[p].read = Nil /\ fs[p].stat = Nil
    /\ Len(fs[p].data) >= Len(sqliteMagic)
    /\ \A k \in 1 .. Len(sqliteMagic) : fs[p].data[k] = sqliteMagic[k]

\* the record of a matching file
RecordOf(fs, p) == [Path |-> p, Size |-> Len(fs[p].data)]

\* Reference traversal of one root on its own: the regular files in walk
\* order up to the first error that is not permission-denied, and that error.
RECURSIVE SendsUntilError(_), FirstError(_)
SendsUntilError(calls) ==
    IF calls = <<>> THEN <<>>
    ELSE LET c == Head(calls)
         IN  IF c.err.errno # Nil /\ c.err.errno # ErrPermission THEN <<>>
             ELSE IF c.err.errno = Nil /\ c.type = "regular"
             THEN <<c.path>> \o SendsUntilError(Tail(calls))
             ELSE SendsUntilError(Tail(calls))
FirstError(calls) ==
    IF calls = <<>> THEN NoErr
    ELSE LET c == Head(calls)
         IN  IF c.err.errno # Nil /\ c.err.errno # ErrPermission THEN c.err
             ELSE FirstError(Tail(calls))
ExpectedSends(fs, root) == SendsUntilError(WalkDir(fs, root))
ExpectedError(fs, root) == FirstError(WalkDir(fs, root))

\* how many of the scan's traversals send p
ExpectedTimes(p) ==
    Cardinality({i \in RootIdx : p \in Range(ExpectedSends(fsys, roots[i]))})
ExpectedMatches(p) == IF Matching(fsys, p) THEN ExpectedTimes(p) ELSE 0

PendingMatches(p) ==
    Cardinality({w \in Workers : workerPc[w] = "sendMatch" /\ workerItem[w].match.Path = p})

FailingRoots == {i \in RootIdx : ~CleanRoot(fsys, roots[i])}

\* ------------------------------------------------------------------------
\* Properties
\* ------------------------------------------------------------------------

\* C1: under fair scheduling every scan runs to completion: every traversal
\* task, every worker and both sinks exit and the run returns, whatever the
\* number of paths, matches and errors relative to the channel capacities.
C1_ScanTerminates == Scans => <>Finished

\* a finished 1-worker scan that sent more paths than the paths channel holds
C1_Witness ==
    /\ Finished
    /\ workers = 1
    /\ TotalEnqueued > Cap("paths")

\* C2: paths is closed only after every traversal task has finished; matches
\* and errs are closed only after every worker has exited, which is after
\* paths is closed and drained; the sinks are waited on only after both
\* channels are closed; no consumer leaves before its channel is closed.
C2_ClosingOrder ==
    /\ closed["paths"] > 0 => AllWalkersDone
    /\ (closed["matches"] > 0 \/ closed["errs"] > 0)
          => (AllWorkersDone /\ closed["paths"] > 0 /\ paths = <<>>)
    /\ closed["errs"] > 0 => closed["matches"] > 0
    /\ ScanReturned => (closed["matches"] > 0 /\ closed["errs"] > 0)
    /\ (\E w \in Workers : workerPc[w] = "done") => closed["paths"] > 0
    /\ resPc = "done" => closed["matches"] > 0
    /\ errPc = "done" => closed["errs"] > 0

\* the caller waits on the result sink while closed matches still holds records
C2_Witness ==
    /\ mainPc = "waitResults"
    /\ closed["matches"] > 0
    /\ matches # <<>>
    /\ resPc # "done"

\* C3: every path sent on paths is received by exactly one worker and probed
\* exactly once before the run completes, also when it was still queued at
\* the close; each probe puts at most one record on matches.
C3_EachPathProbedOnce ==
    /\ \A p \in Paths : enqCount[p] = probeCount[p] + CountIn(paths, p)
    /\ \A p \in Paths : matchCount[p] + PendingMatches(p) <= probeCount[p]
    /\ Finished => \A p \in Paths : probeCount[p] = enqCount[p]

\* paths is closed with paths still queued, one path was sent twice, probed
\* twice and matched twice
C3_Witness ==
    /\ closed["paths"] > 0
    /\ paths # <<>>
    /\ \E p \in Paths : enqCount[p] = 2 /\ probeCount[p] = 1 /\ matchCount[p] = 1

Distinct(seq) == \A j, k \in DOMAIN seq : j # k => seq[j] # seq[k]

\* C4 as stated, for scans whose traversals all end without error: with
\* pairwise different roots, every regular file reachable from a root
\* (outside permission-denied subtrees) is probed exactly once, also when one
\* root lies inside the subtree of another.
C4_EveryFileProbedExactlyOnce ==
    (Finished /\ Distinct(roots) /\ scanRet = <<>>)
        => \A i \in RootIdx : \A p \in ReachableFiles(fsys, roots[i]) : probeCount[p] = 1

\* C5: when findSQLiteFiles returns, every worker and the collector have
\* exited and the returned records are exactly those of the matching regular
\* files the traversals reached, each with its path and byte length; files
\* that do not match contribute nothing.
C5_FindReturnsCompleteResult ==
    ret.returned =>
        /\ AllWorkersDone /\ resPc = "done" /\ matches = <<>>
        /\ ret.out = out
        /\ \A p \in Paths : CountIn(ret.out, RecordOf(fsys, p)) = ExpectedMatches(p)
        /\ \A k \in DOMAIN ret.out : \E p \in Paths :
               Matching(fsys, p) /\ ret.out[k] = RecordOf(fsys, p)
        /\ scanRet = <<>> =>
               {m.Path : m \in Range(ret.out)}
                   = {p \in UNION {ReachableFiles(fsys, roots[i]) : i \in RootIdx} :
                         Matching(fsys, p)}

\* findSQLiteFiles has returned several records and probed a file that does not match
C5_Witness ==
    /\ ret.returned
    /\ Len(ret.out) >= 2
    /\ \E p \in Paths : probeCount[p] > 0 /\ ~Matching(fsys, p)

\* C6: the records a scan produces are fixed by the file tree and the roots:
\* per file, as many as traversals reach it when it matches and none otherwise,
\* the same for every worker count and every interleaving.
C6_MatchSetIndependentOfWorkers ==
    Finished =>
        /\ \A p \in Paths : matchCount[p] = ExpectedMatches(p)
        /\ matches = <<>>
        /\ entry = "find" => \A p \in Paths : CountIn(out, RecordOf(fsys, p)) = matchCount[p]

\* a finished scan with more than one worker whose matches arrived out of
\* discovery order
C6_Witness ==
    /\ Finished
    /\ workers > 1
    /\ entry = "find"
    /\ Len(out) >= 2
    /\ Len(roots) = 1
    /\ \E j, k \in DOMAIN out : \E a, b \in DOMAIN walkSent[1] :
          j < k /\ b < a /\ out[j].Path = walkSent[1][a] /\ out[k].Path = walkSent[1][b]

WalkErrorLine == Line("scan completed with walk error:", scanRet)

\* C7: the walk error is reported (main) or returned (findSQLiteFiles) only
\* after both sinks have consumed everything on their closed channels and
\* exited; the walk-error message is the last thing written.
C7_WalkErrorAfterSinks ==
    /\ (mainPc = "done" \/ ret.returned)
          => (SinksDone /\ matches = <<>> /\ errs = <<>>
                /\ closed["matches"] > 0 /\ closed["errs"] > 0)
    /\ \A k \in DOMAIN stderr :
          stderr[k].kind = "scan completed with walk error:"
              => (k = Len(stderr) /\ SinksDone /\ stderr[k] = WalkErrorLine)
    /\ (mainPc = "done" /\ entry = "main" /\ scanRet # <<>>)
          => (stderr # <<>> /\ stderr[Len(stderr)] = WalkErrorLine)

\* main has reported a walk error after a match and a warning were written
C7_Witness ==
    /\ mainPc = "done"
    /\ entry = "main"
    /\ stdout # <<>>
    /\ Len(stderr) >= 2
    /\ stderr[1].kind = "warning:"
    /\ stderr[Len(stderr)].kind = "scan completed with walk error:"

\* C8: the walk error scanPaths returns is nil exactly when every root
\* traversed cleanly; otherwise it holds the failure of every failing root,
\* once each, in whatever order the traversals finished.
C8_WalkErrorIffRootFailed ==
    ScanReturned =>
        /\ scanRet = <<>> <=> \A i \in RootIdx : CleanRoot(fsys, roots[i])
        /\ Len(scanRet) = Cardinality(FailingRoots)
        /\ \A i \in FailingRoots : ExpectedError(fsys, roots[i]) \in Range(scanRet)
        /\ \A e \in Range(scanRet) : \E i \in FailingRoots : e = ExpectedError(fsys, roots[i])

\* two roots failed and the second root's failure was joined first
C8_Witness ==
    /\ ScanReturned
    /\ Len(roots) = 2
    /\ Len(scanRet) = 2
    /\ scanRet[1] = ExpectedError(fsys, roots[2])
    /\ scanRet[2] = ExpectedError(fsys, roots[1])

\* how many times the traversals have sent p
SentTimes(p) ==
    Cardinality({<<i, k>> \in Walkers \X (1 .. Cardinality(Paths)) :
                    k \in DOMAIN walkSent[i] /\ walkSent[i][k] = p})

\* C9: a failing root stops only its own traversal: every root's traversal
\* sends what it would send on its own (a clean root every reachable regular
\* file, a failing root the files before its error), and every path sent,
\* also by a failing root, is probed and its match emitted.
C9_FailureStopsOnlyItsRoot ==
    Finished =>
        /\ \A i \in RootIdx : walkSent[i] = ExpectedSends(fsys, roots[i])
        /\ \A i \in RootIdx : CleanRoot(fsys, roots[i])
              => Range(walkSent[i]) = ReachableFiles(fsys, roots[i])
        /\ \A p \in Paths : probeCount[p] = SentTimes(p)
        /\ \A p \in Paths : matchCount[p] = IF Matching(fsys, p) THEN SentTimes(p) ELSE 0

\* one root failed after sending a path that was probed and matched, while
\* another root of the scan sent all its files
C9_Witness ==
    /\ Finished
    /\ Len(roots) = 2
    /\ \E i, j \in RootIdx :
          /\ i # j
          /\ ~CleanRoot(fsys, roots[i]) /\ walkSent[i] # <<>>
          /\ matchCount[walkSent[i][1]] > 0
          /\ CleanRoot(fsys, roots[j]) /\ walkSent[j] # <<>>

PermissionCall(c) == c.err.errno = ErrPermission
PermissionFile(p) == fsys[p].type = "regular" /\ fsys[p].open = ErrPermission

\* C10: a permission-denied error never ends a traversal and never enters
\* the walk error; a permission-denied probe puts nothing on errs or matches;
\* the traversal and the worker go on with the next entry or path.
C10_PermissionDeniedSuppressed ==
    /\ \A e \in Range(walkErr) \cup Range(scanRet) : e.errno # ErrPermission
    /\ \A i \in Walkers : walkRet[i].errno # ErrPermission
    /\ \A i \in Walkers : \A k \in DOMAIN Calls(i) :
          (PermissionCall(Calls(i)[k]) /\ k < walkPos[i]) => walkPc[i] \in {"walk", "return", "done"}
    /\ \A i \in Walkers :
          (walkPc[i] \in {"return", "done"} /\ walkRet[i] = NoErr)
              => walkPos[i] = Len(Calls(i))
    /\ \A p \in Paths : PermissionFile(p) => (errCount[p] = 0 /\ matchCount[p] = 0)
    /\ \A e \in Range(errs) : e.errno # ErrPermission
    /\ \A w \in Workers : workerItem[w].err.errno # ErrPermission
    /\ \A l \in Range(stderr) : \A e \in Range(l.errs) : e.errno # ErrPermission
    /\ Finished => \A p \in Paths : probeCount[p] = enqCount[p]

\* a finished scan whose traversal passed a directory it could not list and
\* sent a later file, and whose worker probed a file it could not open and a
\* later path
C10_Witness ==
    /\ Finished
    /\ \E i \in Walkers : \E k \in DOMAIN Calls(i) :
          /\ PermissionCall(Calls(i)[k])
          /\ k < Len(Calls(i))
          /\ walkSent[i] # <<>>
          /\ walkSent[i][Len(walkSent[i])] = Calls(i)[Len(Calls(i))].path
    /\ \E p \in Paths : PermissionFile(p) /\ probeCount[p] > 0
    /\ \E p \in Paths : matchCount[p] > 0

\* the file starts with the 16 signature bytes
HasSignature(fs, p) ==
    /\ Len(fs[p].data) >= Len(sqliteMagic)
    /\ \A k \in 1 .. Len(sqliteMagic) : fs[p].data[k] = sqliteMagic[k]

\* the failure a probe of p meets (Nil when it meets none): the file cannot be
\* opened, or read, or it carries the signature and cannot be stat-ed
ProbeErrno(fs, p) ==
    IF fs[p].open # Nil THEN fs[p].open
    ELSE IF fs[p].read # Nil THEN fs[p].read
    ELSE IF HasSignature(fs, p) /\ fs[p].stat # Nil THEN fs[p].stat
    ELSE Nil
FailingProbe(p) == ProbeErrno(fsys, p) \notin {Nil, ErrPermission}

\* the error a worker sends for a failing probe of p
ProbeError(p) == Err(p, p, ProbeErrno(fsys, p))
PendingErrs(p) ==
    Cardinality({w \in Workers : workerPc[w] = "sendErr" /\ workerItem[w].err.prefix = p})
WarningsFor(p) ==
    Cardinality({k \in DOMAIN stderr : stderr[k] = Line("warning:", <<ProbeError(p)>>)})

\* C11: every probe that fails with an error other than permission-denied
\* puts one error naming the path on errs, which the error sink writes as a
\* warning before the run completes; no match is emitted for the path, the
\* error never enters the walk error, and the scan still probes every path
\* the traversals send.
C11_ProbeErrorIsWarning ==
    /\ \A p \in Paths :
          errCount[p] + PendingErrs(p) = IF FailingProbe(p) THEN probeCount[p] ELSE 0
    /\ \A e \in Range(errs) : FailingProbe(e.prefix) /\ e = ProbeError(e.prefix)
    /\ \A w \in Workers :
          workerPc[w] = "sendErr"
              => (FailingProbe(workerItem[w].err.prefix)
                    /\ workerItem[w].err = ProbeError(workerItem[w].err.prefix))
    /\ entry = "main" =>
          \A p \in Paths : WarningsFor(p) + CountIn(errs, ProbeError(p)) = errCount[p]
    /\ mainPc = "done" =>
          /\ errs = <<>>
          /\ \A p \in Paths : PendingErrs(p) = 0
          /\ entry = "main" =>
                \A p \in Paths : FailingProbe(p) => WarningsFor(p) = probeCount[p]
    /\ \A p \in Paths : FailingProbe(p) => (matchCount[p] = 0 /\ PendingMatches(p) = 0)
    /\ \A e \in Range(walkErr) \cup Range(scanRet) :
          e.prefix = "" /\ \E i \in RootIdx : e = ExpectedError(fsys, roots[i])
    /\ Finished => \A p \in Paths : probeCount[p] = ExpectedTimes(p)

\* main has finished with one worker: a probe failed and was written as a
\* warning, a path sent after it was probed, and a match was printed
C11_Witness ==
    /\ Finished
    /\ entry = "main"
    /\ workers = 1
    /\ stdout # <<>>
    /\ \E i \in RootIdx : \E a, b \in DOMAIN walkSent[i] :
          /\ a < b
          /\ FailingProbe(walkSent[i][a])
          /\ WarningsFor(walkSent[i][a]) = 1
          /\ probeCount[walkSent[i][b]] = 1

\* C12 as stated: in a scan with a worker count <= 0 neither entry point gets
\* past its startup: no channel is made, no sink, traversal or worker is started and
\* nothing is written to standard output or collected.
C12_NonPositiveWorkersRejected ==
    (Scans /\ workers <= 0) =>
        /\ mainPc \in {"start", "exit"}
        /\ resPc = "idle" /\ errPc = "idle"
        /\ Walkers = {} /\ closerPc = "idle"
        /\ stdout = <<>> /\ out = <<>>

\* Reading the output back.  The lines that render no record are the header
\* and footer of the pretty-JSON object and the line --version prints.  In a
\* record's line the path printed is what stands between the quotes (JSON) or
\* in front of the size suffix (plain text).
FrameLines == {<<"{">>, <<"  entries: [">>, <<"  ]">>, <<"}">>}
IsRecordLine(line) == line \notin FrameLines \cup {<<version>>}
Quotes(line) == {k \in DOMAIN line : line[k] = "QUOTE"}
PathOf(line) ==
    IF Quotes(line) # {}
    THEN LET a == CHOOSE k \in Quotes(line) : \A j \in Quotes(line) : k <= j
             b == CHOOSE k \in Quotes(line) : \A j \in Quotes(line) : j <= k
         IN  SubSeq(line, a + 1, b - 1)
    ELSE IF \E k \in DOMAIN line : line[k] = " ("
    THEN SubSeq(line, 1, (CHOOSE k \in DOMAIN line : line[k] = " (") - 1)
    ELSE line
IsPrefix(s, t) == Len(s) <= Len(t) /\ \A k \in DOMAIN s : s[k] = t[k]
RecordLines == SelectSeq(stdout, IsRecordLine)
RenderedPaths == [k \in DOMAIN RecordLines |-> PathOf(RecordLines[k])]
\* the paths as formatPath prints them
Rendered(seq) == [k \in DOMAIN seq |-> formatPath(seq[k])]

PrettyMode == flags.json /\ ~flags.jsonl
Mode == IF flags.jsonl THEN "jsonl" ELSE IF flags.json THEN "json" ELSE "plain"

\* C13: in each output mode the records written to standard output are, in
\* order, the records the result sink received: the output is always a prefix
\* of the received sequence and, once the sink has exited, all of it.
C13_RenderedInReceivedOrder ==
    entry = "main" =>
        /\ Len(RenderedPaths) <= Len(received)
        /\ \A k \in DOMAIN RenderedPaths :
              RenderedPaths[k] = formatPath(received[k].Path)
        /\ resPc = "done" => Len(RenderedPaths) = Len(received)

\* the sink has exited after rendering, as pretty JSON, three records of
\* which the first two name different files
C13_Witness ==
    /\ entry = "main"
    /\ PrettyMode
    /\ resPc = "done"
    /\ Len(received) >= 3
    /\ received[1].Path # received[2].Path
    /\ Len(RenderedPaths) = Len(received)

\* the records the sink has received and not yet written
Held == Len(received) - Len(RecordLines)

\* C14: streamMatches never accumulates records: in plain and JSON-lines
\* modes every received record is already written (none held); in pretty-JSON
\* mode at most one record is held, the one received last, and none once the
\* channel is closed and the sink has exited.
C14_AtMostOneRecordHeld ==
    entry = "main" =>
        /\ out = <<>>
        /\ ~PrettyMode => (Held = 0 /\ curr = None)
        /\ PrettyMode =>
              /\ Held \in {0, 1}
              /\ Held = 1 <=> resPc = "next"
              /\ resPc = "next" => curr = received[Len(received)]
              /\ resPc # "next" => curr = None
              /\ resPc = "done" => Held = 0

\* pretty JSON: the sink holds its look-ahead record, has written an earlier
\* one, and more records are queued
C14_Witness ==
    /\ entry = "main"
    /\ PrettyMode
    /\ resPc = "next"
    /\ Len(received) >= 2
    /\ Held = 1
    /\ matches # <<>>

Last(line) == line[Len(line)]
EndsWithComma(line) == line # <<>> /\ Last(line) = ","
\* a comma is the last token of its line, right after an entry's closing
\* brace, or separates the two fields inside an entry
CommaWellPlaced(line, k) ==
    \/ k = Len(line) /\ k > 1 /\ line[k - 1] = "    }"
    \/ k > 1 /\ k < Len(line) /\ line[k - 1] = "QUOTE"

\* C15: in pretty-JSON mode the finished output is the two header lines, one
\* line group per received record and the two footer lines; every entry but
\* the last ends "}," with the comma right after its closing brace, the last
\* ends "}" with no comma, so N entries carry N-1 separating commas; with no
\* record the output is the header and footer alone.
C15_PrettyJSONCommas ==
    (entry = "main" /\ PrettyMode) =>
        /\ \A j \in DOMAIN stdout : \A k \in DOMAIN stdout[j] :
              stdout[j][k] = "," => CommaWellPlaced(stdout[j], k)
        /\ \A j \in DOMAIN stdout : stdout[j] # <<",">>
        /\ resPc = "done" =>
              LET N == Len(received)
              IN  /\ Len(stdout) = N + 4
                  /\ stdout[1] = <<"{">> /\ stdout[2] = <<"  entries: [">>
                  /\ stdout[N + 3] = <<"  ]">> /\ stdout[N + 4] = <<"}">>
                  /\ \A k \in 1 .. N :
                        /\ Head(stdout[k + 2]) = "    {"
                        /\ PathOf(stdout[k + 2]) = formatPath(received[k].Path)
                        /\ k < N => (EndsWithComma(stdout[k + 2])
                                      /\ stdout[k + 2][Len(stdout[k + 2]) - 1] = "    }")
                        /\ k = N => Last(stdout[k + 2]) = "    }"
                  /\ Cardinality({j \in DOMAIN stdout : EndsWithComma(stdout[j])})
                        = IF N = 0 THEN 0 ELSE N - 1

\* pretty JSON with sizes: the sink has exited after writing two entries
C15_Witness ==
    /\ entry = "main"
    /\ PrettyMode
    /\ flags.size
    /\ resPc = "done"
    /\ Len(received) = 2
    /\ EndsWithComma(stdout[3])
    /\ ~EndsWithComma(stdout[4])

\* pretty JSON: the sink has exited without having received a record
C15_EmptyArrayReached ==
    entry = "main" /\ PrettyMode /\ resPc = "done" /\ received = <<>>

\* The key resolveRoots should give a root: for a root that exists, the path
\* its symbolic links resolve to (the target of a link, the shortest spelling
\* of any other root); the root's own name otherwise.
Exists(p) == fsys[p].lstat = Nil
IsLink(p) == Exists(p) /\ fsys[p].type = "symlink"
Key(root) ==
    IF IsLink(root)
    THEN IF Exists(fsys[root].link) THEN fsys[root].link ELSE root
    ELSE IF Exists(root) THEN Clean(root) ELSE root
\* the first of the roots handed to resolveRoots whose key is r
FirstAt(r) ==
    CHOOSE k \in DOMAIN positions :
        Key(positions[k]) = r /\ \A j \in 1 .. k - 1 : Key(positions[j]) # r

\* C16: the list main scans holds the key of every root handed to
\* resolveRoots, the positional paths or else the --path root (the resolved
\* path of a root that resolves to an existing path, the raw name otherwise),
\* each key once, in the order in which the keys first appear; a root given
\* raw and through a symbolic link gives one entry; a missing root is kept
\* and raises no error.
C16_ResolveRootsDeduplicates ==
    mainPc # "start" =>
        /\ Distinct(roots)
        /\ Range(roots) = {Key(positions[k]) : k \in DOMAIN positions}
        /\ \A i, j \in DOMAIN roots : i < j => FirstAt(roots[i]) < FirstAt(roots[j])
        /\ \A k \in DOMAIN positions :
              ~Exists(positions[k]) => positions[k] \in Range(roots)
        /\ ~panicked /\ stderr = <<>>

\* three roots were given: a symbolic link, then a missing path, then the
\* link's target; two roots are scanned, the target first
C16_Witness ==
    /\ mainPc # "start"
    /\ Len(args) = 3
    /\ IsLink(args[1])
    /\ ~Exists(args[2])
    /\ args[3] = fsys[args[1]].link
    /\ roots = <<args[3], args[2]>>

\* open, read and stat of the file all succeed
Readable(p) == fsys[p].open = Nil /\ fsys[p].read = Nil /\ fsys[p].stat = Nil
Probed(p) == probeCount[p] > 0

\* C17: a probe of a readable file returns a match exactly when the file has
\* at least 16 bytes and the first 16 are the signature; the match holds the
\* path probed and the file's length; a shorter file, and a file of 16 or
\* more bytes with another header, give no match and no error.
C17_HeaderProbe ==
    \A p \in Paths :
        LET data == fsys[p].data
            r == probeRes[p]
        IN  /\ (Probed(p) /\ Readable(p)) =>
                  /\ r.ok <=> (Len(data) >= 16 /\ SubSeq(data, 1, 16) = sqliteMagic)
                  /\ r.ok => r.res = [Path |-> p, Size |-> Len(data)]
                  /\ r.err = NoErr
            /\ (Probed(p) /\ fsys[p].open = Nil /\ fsys[p].read = Nil /\ Len(data) < 16) =>
                  (~r.ok /\ r.err = NoErr)
            /\ (Probed(p) /\ Readable(p) /\ Len(data) >= 16
                    /\ SubSeq(data, 1, 16) # sqliteMagic) =>
                  (~r.ok /\ r.err = NoErr)
            /\ ~r.ok => r.res = NoMatch

\* a readable file holding the 16 signature bytes and nothing else was probed
\* and matched with size 16
C17_Witness ==
    /\ Probed("a/t")
    /\ Readable("a/t")
    /\ fsys["a/t"].data = sqliteMagic
    /\ probeRes["a/t"] = [res |-> [Path |-> "a/t", Size |-> 16], ok |-> TRUE, err |-> NoErr]

\* Reading a rendered record back: the path field of a JSON object, and the
\* size as the number after the size key (JSON) or inside " (N bytes)" (plain).
SizeKeys == {"size:", "      size:", " ("}
PathKeys == {"path:", "      path:"}
HasSize(line) == \E k \in DOMAIN line : line[k] \in SizeKeys
SizeOf(line) == line[(CHOOSE k \in DOMAIN line : line[k] \in SizeKeys) + 1]
HasPathField(line) ==
    \E k \in DOMAIN line :
        /\ line[k] \in PathKeys
        /\ line[k + 1] = "QUOTE"
        /\ Cardinality(Quotes(line)) = 2
        /\ PathOf(line) # <<>>

\* C18: in plain, JSON-lines and pretty-JSON output every rendered record
\* carries the record's path, and carries a size, equal to the record's size,
\* exactly when --size was given.
C18_SizeIffRequested ==
    entry = "main" =>
        \A k \in DOMAIN RecordLines :
            LET line == RecordLines[k]
            IN  /\ PathOf(line) = formatPath(received[k].Path)
                /\ Mode = "plain" =>
                      IsPrefix(formatPath(received[k].Path), line)
                /\ Mode # "plain" => HasPathField(line)
                /\ HasSize(line) <=> flags.size
                /\ flags.size => SizeOf(line) = ToString(received[k].Size)
                /\ (flags.size /\ Mode = "plain") => Last(line) = " bytes)"

\* JSON lines with --size: the record of the 31-byte file has been written
\* with its path and size
C18_Witness ==
    /\ entry = "main"
    /\ Mode = "jsonl"
    /\ flags.size
    /\ \E k \in DOMAIN RecordLines :
          /\ PathOf(RecordLines[k]) = <<Cwd, "a/f">>
          /\ SizeOf(RecordLines[k]) = ToString(Len(DataLong))

\* a root given by an absolute path: its record is written without the
\* working directory
C18_AbsolutePathRendered ==
    entry = "main" /\ \E k \in DOMAIN RecordLines : PathOf(RecordLines[k]) = <<"/v">>

\* os.Getwd fails: a record is written with the relative path it was found under
C18_RelativePathRendered ==
    entry = "main" /\ \E k \in DOMAIN RecordLines : PathOf(RecordLines[k]) = <<"a/t">>

\* a traversal whose next step is a send on paths
SendPending(i) == walkPc[i] = "walk" /\ walkFn(Calls(i)[walkPos[i]]).send

\* C19: the three channels never hold more than their capacities, 4N paths,
\* 2N matches and N errors for N workers, however many paths the traversals
\* have to send: a sender facing a full channel adds nothing.
C19_QueuesWithinCapacity ==
    /\ Len(paths) <= 4 * workers
    /\ Len(matches) <= 2 * workers
    /\ Len(errs) <= workers
    /\ \A p \in Paths :
          /\ CountIn(paths, p) = enqCount[p] - probeCount[p]
          /\ CountIn(matches, RecordOf(fsys, p)) + CountIn(received, RecordOf(fsys, p))
                = matchCount[p]

\* one worker: paths holds 4 items while a traversal waits to send a fifth
C19_Witness ==
    /\ workers = 1
    /\ Len(paths) = 4
    /\ \E i \in Walkers : SendPending(i)

\* one worker waits to send a third match while matches holds 2 records
C19_MatchesFullReached ==
    /\ workers = 1
    /\ Len(matches) = 2
    /\ \E w \in Workers : workerPc[w] = "sendMatch"

\* one worker waits to send a second error while errs holds 1
C19_ErrsFullReached ==
    /\ workers = 1
    /\ Len(errs) = 1
    /\ \E w \in Workers : workerPc[w] = "sendErr"

\* the traversals inside the critical section of lines 274-276
LockedWalkers == {i \in Walkers : walkPc[i] = "locked"}
\* the traversals that have recorded their error and released the mutex,
\* counted out of walkWg or not yet
FailedWalkers ==
    {i \in Walkers : walkPc[i] \in {"return", "done"} /\ walkRet[i] # NoErr}

\* C20: walkErr changes only inside the critical section: at most one
\* traversal is in it, the mutex is held exactly while a traversal is in it
\* (never by a traversal that is walking or sending), and walkErr always
\* holds exactly the errors of the traversals that have gone through it, so
\* no root's failure is lost when several fail at once.
C20_WalkErrorUnderLock ==
    /\ Cardinality(LockedWalkers) <= 1
    /\ walkErrMu = 0 <=> LockedWalkers = {}
    /\ walkErrMu # 0 =>
          /\ walkErrMu \in Walkers
          /\ walkPc[walkErrMu] = "locked"
          /\ walkRet[walkErrMu] # NoErr
    /\ \A i \in Walkers :
          walkPc[i] \in {"idle", "walk", "lock", "return", "done"} => walkErrMu # i
    /\ Len(walkErr) = Cardinality(FailedWalkers)
    /\ \A i \in FailedWalkers :
          CountIn(walkErr, walkRet[i])
              = Cardinality({j \in FailedWalkers : walkRet[j] = walkRet[i]})
    /\ Finished => Len(scanRet) = Cardinality({i \in Walkers : walkRet[i] # NoErr})

\* two roots have failed: one traversal holds the lock while the other waits for it
C20_Witness ==
    \E i, j \in Walkers :
        /\ i # j
        /\ walkPc[i] = "locked"
        /\ walkPc[j] = "lock"
        /\ walkErrMu = i

\* a traversal has released the mutex and is not yet counted out of walkWg
\* while another one holds the mutex
C20_LockTakenBeforeDone ==
    \E i, j \in Walkers :
        /\ walkPc[i] = "return" /\ walkRet[i] # NoErr
        /\ walkPc[j] = "locked"
        /\ walkErr = <<walkRet[i]>>
        /\ walkWg = 2

Channels == {"paths", "matches", "errs"}

\* C21: no goroutine sends on a closed channel and no channel is closed
\* twice (nothing panics): once paths is closed no traversal has a send left,
\* once matches or errs is closed no worker is about to send on it, and when
\* the pieces that close them are through each channel has been closed
\* exactly once.
C21_NoSendOnClosedChannel ==
    /\ ~panicked
    /\ \A ch \in Channels : closed[ch] <= 1
    /\ closed["paths"] > 0 => \A i \in Walkers : walkPc[i] = "done"
    /\ closed["matches"] > 0 => \A w \in Workers : workerPc[w] # "sendMatch"
    /\ closed["errs"] > 0 => \A w \in Workers : workerPc[w] # "sendErr"
    /\ closerPc = "done" => closed["paths"] = 1
    /\ ScanReturned => (closed["matches"] = 1 /\ closed["errs"] = 1)
    /\ Finished => \A ch \in Channels : closed[ch] = 1

\* paths is already closed while, of two workers, one is about to send a
\* match and the other an error on the channels that are still open
C21_Witness ==
    /\ closed["paths"] = 1
    /\ closed["matches"] = 0 /\ closed["errs"] = 0
    /\ \E v, w \in Workers : workerPc[v] = "sendMatch" /\ workerPc[w] = "sendErr"

IsMatchingFile(p) == Matching(fsys, p)
\* the matching files of a root in the order its traversal discovers them
DiscoveryOrder(root) == SelectSeq(ExpectedSends(fsys, root), IsMatchingFile)
PathsOfRecords(seq) == [k \in DOMAIN seq |-> seq[k].Path]
\* the records queued on matches, then the one the single worker is about to send
InFlight ==
    PathsOfRecords(matches)
        \o (IF workerPc[1] = "sendMatch" THEN <<workerItem[1].match.Path>> ELSE <<>>)

\* C22: with one root and one worker the records reach the result sink, and
\* are written or collected, in the order in which the traversal discovers
\* their files: what the sink has received, followed by what is queued on
\* matches, is always a prefix of the discovery order, and all of it at the end.
C22_DiscoveryOrderWithOneWorker ==
    (Len(roots) = 1 /\ workers = 1 /\ mainPc \notin {"start", "scan"}) =>
        LET order == DiscoveryOrder(roots[1])
        IN  /\ IsPrefix(PathsOfRecords(received) \o InFlight, order)
            /\ IsPrefix(walkSent[1], ExpectedSends(fsys, roots[1]))
            /\ IsPrefix(SelectSeq(walkSent[1], IsMatchingFile), order)
            /\ entry = "main" => IsPrefix(RenderedPaths, Rendered(order))
            /\ entry = "find" => PathsOfRecords(out) = PathsOfRecords(received)
            /\ Finished =>
                  /\ PathsOfRecords(received) = order
                  /\ entry = "main" => RenderedPaths = Rendered(order)

\* one root, one worker: main has finished after writing four records, with a
\* directory's files between the first and the last, in discovery order
C22_Witness ==
    /\ Finished
    /\ entry = "main"
    /\ workers = 1
    /\ Len(roots) = 1
    /\ RenderedPaths = Rendered(<<"a/f", "a/s/g", "a/s/h", "a/t">>)

\* one worker and two roots: the sink received a file of the second root
\* before a file of the first
C22_ReorderedWithTwoRoots ==
    /\ workers = 1
    /\ Len(roots) = 2
    /\ Len(received) >= 2
    /\ received[1].Path \in Range(ExpectedSends(fsys, roots[2]))
    /\ received[1].Path \notin Range(ExpectedSends(fsys, roots[1]))
    /\ received[2].Path \in Range(ExpectedSends(fsys, roots[1]))
====
